---- MODULE Spec2Model ----
(***************************************************************************)
(* A model of barcode_decoder.py: the command-line dispatch (main), the    *)
(* single-file entry (decode_single_image), the batch driver               *)
(* (decode_all_images_in_directory) and the per-image pipeline             *)
(* (decode_barcode_pyzbar).                                                *)
(*                                                                         *)
(* Strings are sequences of one-character strings, so that rsplit,         *)
(* endswith, lower and os.path.join are computed character by character.   *)
(* The external libraries (cv2, pyzbar, PIL) are the environment: what     *)
(* cv2.imread, pyzbar.decode and Image.open yield for a file is chosen     *)
(* nondeterministically at the call; cv2.imwrite creates the file it is    *)
(* given.  An uncaught Python exception ends the program (pc = "crashed"). *)
(***************************************************************************)
EXTENDS Integers, Sequences, FiniteSets, TLC

\* ------------------------------------------------------------- bounds
\* Files present in the file system when the program is started.
MaxFiles == 2
\* Symbols one pyzbar.decode call may return.
MaxSymbols == 2

\* ------------------------------------------------- program constants
\* barcode_data[:30], the label drawn above a symbol
LabelMax == 30

\* ---------------------------------------------------------- strings
EndsWith(s, suf) ==
    /\ Len(s) >= Len(suf)
    /\ SubSeq(s, Len(s) - Len(suf) + 1, Len(s)) = suf

StartsWith(s, pre) ==
    /\ Len(s) >= Len(pre)
    /\ SubSeq(s, 1, Len(pre)) = pre

\* str.lower() on the letters the model's file names use
LowerChar(c) ==
    CASE c = "C" -> "c"
      [] c = "P" -> "p"
      [] c = "N" -> "n"
      [] c = "G" -> "g"
      [] OTHER -> c

Lower(s) == [i \in 1..Len(s) |-> LowerChar(s[i])]

\* index of the last occurrence of character c in s, 0 when there is none
LastIndexOf(s, c) ==
    LET hits == {i \in 1..Len(s) : s[i] = c}
    IN  IF hits = {} THEN 0 ELSE CHOOSE i \in hits : \A j \in hits : j <= i

\* s.rsplit(sep, 1) for a one-character separator: a list of one or two parts
RSplit1(s, sep) ==
    LET i == LastIndexOf(s, sep)
    IN  IF i = 0 THEN <<s>>
        ELSE <<SubSeq(s, 1, i - 1), SubSeq(s, i + 1, Len(s))>>

\* os.path.join(directory, name) for a relative name
PathJoin(dir, name) ==
    IF dir = <<>> \/ EndsWith(dir, <<"/">>) THEN dir \o name
    ELSE dir \o <<"/">> \o name

\* The file-system entry a path names: a leading "./" names the same entry.
RECURSIVE Norm(_)
Norm(p) == IF StartsWith(p, <<".", "/">>) THEN Norm(SubSeq(p, 3, Len(p))) ELSE p

\* os.path.basename
Basename(p) == SubSeq(p, LastIndexOf(p, "/") + 1, Len(p))

\* ------------------------------------------------------- file names
ExtPng  == <<".", "p", "n", "g">>
ExtJpg  == <<".", "j", "p", "g">>
ExtJpeg == <<".", "j", "p", "e", "g">>
ExtBmp  == <<".", "b", "m", "p">>
ExtTiff == <<".", "t", "i", "f", "f">>
ExtGif  == <<".", "g", "i", "f">>
Decoded == <<"_", "d", "e", "c", "o", "d", "e", "d">>

\* image_extensions of decode_all_images_in_directory
image_extensions == {ExtPng, ExtJpg, ExtJpeg, ExtBmp, ExtTiff, ExtGif}

\* Entries that may exist when the program is started.
InitialPaths ==
    { <<"a">> \o ExtPng,                        \* a.png
      <<"b", ".", "v">> \o ExtBmp,              \* b.v.bmp
      <<"C", ".", "P", "N", "G">>,              \* C.PNG
      <<"a">> \o Decoded \o ExtPng,             \* a_decoded.png, an earlier output
      <<"C">> \o Decoded \o <<".", "P", "N", "G">>, \* C_decoded.PNG, an earlier output
      <<"c">>,                                  \* c, an image without extension
      <<"d">> \o ExtPng \o <<"/", "c">> }       \* d.png/c, in a dotted directory

\* Paths that may be given on the command line.
ArgPaths ==
    { <<"a">> \o ExtPng,
      <<"c">>,
      <<"d">> \o ExtPng \o <<"/", "c">>,
      <<"d">> \o ExtPng,                        \* d.png, a directory
      <<"g">> \o ExtPng }                       \* g.png never exists

\* sys.argv[0]
ProgName == <<"b", "d">>

\* decode_all_images_in_directory(directory=".")
DefaultDirectory == <<".">>

\* --------------------------------------------------------- symbols
\* What pyzbar reports for one symbol: type, payload bytes, rect.
Symbols ==
    { [type |-> "QRCODE", data |-> <<72, 73>>,   rect |-> <<1, 2, 3, 4>>],
      [type |-> "EAN13",  data |-> <<195, 169>>, rect |-> <<5, 6, 7, 8>>],
      [type |-> "QRCODE", data |-> <<255>>,      rect |-> <<1, 2, 3, 4>>] }

BoundedSeq(S, n) == UNION {[1..k -> S] : k \in 0..n}

\* the lists a pyzbar.decode call may return: each symbol of the image is
\* located once, so no entry (type, data, rect) occurs twice
DecodeOutcomes ==
    {q \in BoundedSeq(Symbols, MaxSymbols) :
        \A i, j \in 1..Len(q) : i # j => q[i] # q[j]}

\* bytes.decode('utf-8') on one- and two-byte sequences: ok = FALSE is
\* UnicodeDecodeError, text is the code points decoded.
RECURSIVE Utf8Decode(_)
Utf8Decode(b) ==
    IF b = <<>> THEN [ok |-> TRUE, text |-> <<>>]
    ELSE IF b[1] < 128
      THEN LET r == Utf8Decode(Tail(b))
           IN  [ok |-> r.ok, text |-> IF r.ok THEN <<b[1]>> \o r.text ELSE <<>>]
    ELSE IF b[1] \in 194..223 /\ Len(b) >= 2 /\ b[2] \in 128..191
      THEN LET r == Utf8Decode(SubSeq(b, 3, Len(b)))
           IN  [ok |-> r.ok,
                text |-> IF r.ok THEN <<(b[1] - 192) * 64 + (b[2] - 128)>> \o r.text
                         ELSE <<>>]
    ELSE [ok |-> FALSE, text |-> <<>>]

Min(a, b) == IF a <= b THEN a ELSE b

\* ------------------------------------------------------------ state
VARIABLES
    fs,            \* the file system: the paths (normalised) that exist
    sys_argv,      \* sys.argv
    pc,            \* position of the program
    calls,         \* functions of the script entered so far
    ops,           \* library and os calls made so far
    directory,     \* decode_all_images_in_directory: its parameter
    listing,       \* what os.listdir(directory) returned
    image_files,   \* the filtered list (names are unique, so a set)
    todo,          \* names the for loop has not reached yet
    image_file,    \* the loop variable
    all_results,   \* the dict from file name to results
    summary,       \* what the summary printed
    image_path,    \* decode_barcode_pyzbar: its parameter
    image,         \* "None" or "bitmap", what cv2.imread returned
    gray,          \* "unset" or "gray", the cv2.cvtColor result
    barcodes,      \* the list of the last pyzbar.decode call
    results,       \* the list being built and returned
    labels,        \* the texts drawn on the image, in drawing order
    idx,           \* the enumerate index of the for loop over barcodes
    output_path,   \* the name derived for the annotated image
    ret,           \* the value last returned to a caller
    \* history, kept to state the properties
    attempts,      \* the decode calls of this invocation: representation, list
    inv_writes,    \* the paths this invocation handed to cv2.imwrite
    fs_at_call,    \* the file system when this invocation started
    load_failed,   \* this invocation's cv2.imread returned None
    invocations,   \* file name -> pipeline invocations so far
    ret_log,       \* file name -> outcome and list of the pipeline's return
    returned_for   \* outcome -> the values returned for it so far

vars == <<fs, sys_argv, pc, calls, ops, directory, listing, image_files,
          todo, image_file, all_results, summary, image_path, image, gray,
          barcodes, results, labels, idx, output_path, ret, attempts,
          inv_writes, fs_at_call, load_failed, invocations, ret_log,
          returned_for>>

batchVars == <<directory, listing, image_files, todo, image_file, all_results, summary>>
localVars == <<image_path, image, gray, barcodes, results, labels, idx, output_path>>
histVars  == <<attempts, inv_writes, fs_at_call, load_failed>>

\* values a function of the script returns
NoneValue   == [tag |-> "None", val |-> <<>>]
ListValue(l) == [tag |-> "list", val |-> l]

NoSummary == [printed |-> FALSE, processed |-> 0, successful |-> 0, total |-> 0]

\* an empty dict
EmptyDict == <<>>

\* d[k] = v on a dict
DictPut(d, k, v) ==
    IF k \in DOMAIN d THEN [d EXCEPT ![k] = v] ELSE d @@ (k :> v)

\* the command lines the program may be started with
ArgvChoices ==
    {<<ProgName>>}
      \cup {<<ProgName, p>> : p \in ArgPaths}
      \cup {<<ProgName, <<"a">> \o ExtPng, <<"c">>>>}

\* the state at the entry of main
FreshRun ==
    /\ pc = "main"
    /\ calls = {}
    /\ ops = {}
    /\ directory = <<>>
    /\ listing = {}
    /\ image_files = {}
    /\ todo = {}
    /\ image_file = <<>>
    /\ all_results = EmptyDict
    /\ summary = NoSummary
    /\ image_path = <<>>
    /\ image = "None"
    /\ gray = "unset"
    /\ barcodes = <<>>
    /\ results = <<>>
    /\ labels = <<>>
    /\ idx = 0
    /\ output_path = <<>>
    /\ ret = NoneValue
    /\ attempts = <<>>
    /\ inv_writes = <<>>
    /\ load_failed = FALSE
    /\ invocations = EmptyDict
    /\ ret_log = EmptyDict

Init ==
    /\ fs \in {s \in SUBSET InitialPaths : Cardinality(s) <= MaxFiles}
    /\ sys_argv \in ArgvChoices
    /\ FreshRun
    /\ fs_at_call = fs
    /\ returned_for = [o \in {"load_failure", "no_symbols"} |-> {}]

\* ------------------------------------------------------------- main
\* variant: the comparison is off by one
HasPathArgumentNeedsTwo(argv) == Len(argv) > 2

\* len(sys.argv) > 1
HasPathArgument(argv) == Len(argv) > 1

\* main: dispatch on the command line
Main ==
    /\ pc = "main"
    /\ IF HasPathArgument(sys_argv)
         THEN /\ pc' = "single"
              /\ image_path' = sys_argv[2]
              /\ calls' = calls \cup {"decode_single_image"}
              /\ UNCHANGED directory
         ELSE /\ pc' = "batch"
              /\ directory' = DefaultDirectory
              /\ calls' = calls \cup {"decode_all_images_in_directory"}
              /\ UNCHANGED image_path
    /\ UNCHANGED <<fs, ops, listing, image_files, todo, image_file, all_results,
                   summary, image, gray, barcodes, results, labels, idx,
                   output_path, ret, invocations, ret_log, returned_for>>
    /\ UNCHANGED <<histVars, sys_argv>>

\* ---------------------------------------------- decode_single_image
\* the entry is a regular file
IsFile(p) == Norm(p) \in fs

\* the entry is a directory: some file lies below it
IsDir(p) == \E q \in fs : StartsWith(q, Norm(p) \o <<"/">>)

\* os.path.exists(path)
Exists(p) == IsFile(p) \/ IsDir(p)

\* the call of decode_barcode_pyzbar: its locals are fresh
EnterPipeline(path, name) ==
    /\ pc' = "imread"
    /\ image_path' = path
    /\ calls' = calls \cup {"decode_barcode_pyzbar"}
    /\ invocations' = DictPut(invocations, name,
                              IF name \in DOMAIN invocations
                                THEN invocations[name] + 1 ELSE 1)
    /\ image' = "None"
    /\ gray' = "unset"
    /\ barcodes' = <<>>
    /\ results' = <<>>
    /\ labels' = <<>>
    /\ idx' = 0
    /\ output_path' = <<>>
    /\ attempts' = <<>>
    /\ inv_writes' = <<>>
    /\ fs_at_call' = fs
    /\ load_failed' = FALSE

\* decode_single_image: the existence check, then the pipeline
SingleImage ==
    /\ pc = "single"
    /\ ops' = ops \cup {"exists"}
    /\ IF ~Exists(image_path)
         THEN /\ pc' = "exit"
              /\ ret' = NoneValue
              /\ returned_for' = [returned_for EXCEPT
                                    !["load_failure"] = @ \cup {NoneValue}]
              /\ UNCHANGED <<calls, invocations, localVars, histVars>>
         ELSE /\ EnterPipeline(image_path, image_path)
              /\ UNCHANGED <<ret, returned_for>>
    /\ UNCHANGED <<fs, batchVars, ret_log, sys_argv>>

\* ----------------------------------- decode_all_images_in_directory
FirstIndexOf(s, c) ==
    LET hits == {i \in 1..Len(s) : s[i] = c}
    IN  IF hits = {} THEN 0 ELSE CHOOSE i \in hits : \A j \in hits : i <= j

\* the first component of a relative path
FirstComponent(p) ==
    IF FirstIndexOf(p, "/") = 0 THEN p ELSE SubSeq(p, 1, FirstIndexOf(p, "/") - 1)

\* os.listdir(dir): the files and the directories directly below dir
ListDir(dir) ==
    LET prefix == Norm(dir \o <<"/">>)
    IN  {FirstComponent(SubSeq(p, Len(prefix) + 1, Len(p))) :
            p \in {q \in fs : StartsWith(q, prefix)}}

\* the filter of the list comprehension
Selected(f) ==
    /\ \E e \in image_extensions : EndsWith(Lower(f), e)
    /\ ~EndsWith(f, Decoded \o ExtPng)
    /\ ~EndsWith(f, Decoded \o ExtJpg)

\* os.listdir, the filter, and the return when nothing is left
BatchEnumerate ==
    /\ pc = "batch"
    /\ ops' = ops \cup {"listdir"}
    /\ listing' = ListDir(directory)
    /\ image_files' = {f \in listing' : Selected(f)}
    /\ IF image_files' = {}
         THEN /\ pc' = "exit"
              /\ todo' = {}
              /\ ret' = NoneValue
         ELSE /\ pc' = "loop"
              /\ todo' = image_files'
              /\ UNCHANGED ret
    /\ UNCHANGED <<fs, calls, directory, image_file, all_results, summary,
                   invocations, ret_log, returned_for>>
    /\ UNCHANGED <<localVars, histVars, sys_argv>>

\* for image_file in image_files: the call of the pipeline
BatchNext ==
    /\ pc = "loop"
    /\ \E f \in todo :
         /\ image_file' = f
         /\ todo' = todo \ {f}
         /\ EnterPipeline(PathJoin(directory, f), f)
    /\ UNCHANGED <<fs, ops, directory, listing, image_files, all_results,
                   summary, ret, ret_log, returned_for, sys_argv>>

\* all_results[image_file] = results
BatchStore ==
    /\ pc = "returned"
    /\ "decode_all_images_in_directory" \in calls
    /\ all_results' = DictPut(all_results, image_file, ret.val)
    /\ pc' = "loop"
    /\ UNCHANGED <<fs, calls, ops, directory, listing, image_files, todo,
                   image_file, summary, ret, invocations, ret_log, returned_for>>
    /\ UNCHANGED <<localVars, histVars, sys_argv>>

RECURSIVE SumLen(_, _)
SumLen(d, keys) ==
    IF keys = {} THEN 0
    ELSE LET k == CHOOSE x \in keys : TRUE
         IN  Len(d[k]) + SumLen(d, keys \ {k})

\* sum(len(results) for results in all_results.values())
TotalBarcodes(d) == SumLen(d, DOMAIN d)

\* variant: a list of one symbol is not counted
SuccessfulImagesSeveral(d) == Cardinality({k \in DOMAIN d : Len(d[k]) > 1})

\* sum(1 for results in all_results.values() if results)
SuccessfulImages(d) == Cardinality({k \in DOMAIN d : d[k] # <<>>})

\* the summary after the loop; main discards the dict that is returned
BatchSummary ==
    /\ pc = "loop"
    /\ todo = {}
    /\ summary' = [printed    |-> TRUE,
                   processed  |-> Cardinality(image_files),
                   successful |-> SuccessfulImages(all_results),
                   total      |-> TotalBarcodes(all_results)]
    /\ pc' = "exit"
    /\ UNCHANGED <<fs, calls, ops, directory, listing, image_files, todo,
                   image_file, all_results, ret, invocations, ret_log,
                   returned_for>>
    /\ UNCHANGED <<localVars, histVars, sys_argv>>

\* -------------------------------------------- decode_barcode_pyzbar
\* cv2.imread, the None check, cv2.cvtColor
Imread ==
    /\ pc = "imread"
    /\ \/ /\ image' = "None"
          /\ load_failed' = TRUE
          /\ ops' = ops \cup {"imread"}
          /\ pc' = "return"
          /\ UNCHANGED gray
       \/ /\ IsFile(image_path)
          /\ image' = "bitmap"
          /\ gray' = "gray"
          /\ ops' = ops \cup {"imread", "cvtColor"}
          /\ pc' = "decode_image"
          /\ UNCHANGED load_failed
    /\ UNCHANGED <<fs, calls, batchVars, image_path, barcodes, results, labels,
                   idx, output_path, ret, attempts, inv_writes, fs_at_call,
                   invocations, ret_log, returned_for, sys_argv>>

\* variant: the next representation is tried whatever was found
NeedsFallbackAlways(b) == TRUE

\* "if not barcodes": the next representation is tried
NeedsFallback(b) == b = <<>>

\* one pyzbar.decode call on representation rep, then the position `more`
\* when the next representation is to be tried
DecodeOn(rep, more) ==
    /\ \E b \in DecodeOutcomes :
         /\ barcodes' = b
         /\ attempts' = Append(attempts, [rep |-> rep, found |-> b])
         /\ pc' = IF NeedsFallback(b) THEN more ELSE "report"
    /\ ops' = ops \cup {"decode"}
    /\ UNCHANGED <<fs, calls, batchVars, image_path, image, gray, results,
                   labels, idx, output_path, ret, inv_writes, fs_at_call,
                   load_failed, invocations, ret_log, returned_for, sys_argv>>

\* barcodes = pyzbar.decode(image)
DecodeImage ==
    /\ pc = "decode_image"
    /\ DecodeOn("image", "decode_gray")

\* barcodes = pyzbar.decode(gray)
DecodeGray ==
    /\ pc = "decode_gray"
    /\ DecodeOn("gray", "pil_open")

\* pil_image = Image.open(image_path): it returns or it raises
PilOpen ==
    /\ pc = "pil_open"
    /\ ops' = ops \cup {"pil_open"}
    /\ \/ IsFile(image_path) /\ pc' = "decode_pil"
       \/ pc' = "crashed"
    /\ UNCHANGED <<fs, calls, batchVars, localVars, ret, histVars, invocations,
                   ret_log, returned_for, sys_argv>>

\* barcodes = pyzbar.decode(pil_image)
DecodePil ==
    /\ pc = "decode_pil"
    /\ DecodeOn("pil", "report")

\* variant: the annotation branch is taken whatever was found
ShouldAnnotateAlways(b) == TRUE

\* "if barcodes": the symbols are reported and the image is annotated
ShouldAnnotate(b) == b # <<>>

\* the branch on barcodes after the decode attempts
Report ==
    /\ pc = "report"
    /\ IF ShouldAnnotate(barcodes)
         THEN pc' = "for" /\ idx' = 1
         ELSE pc' = "return" /\ UNCHANGED idx
    /\ UNCHANGED <<fs, calls, ops, batchVars, image_path, image, gray, barcodes,
                   results, labels, output_path, ret, histVars, invocations,
                   ret_log, returned_for, sys_argv>>

\* one iteration of "for idx, barcode in enumerate(barcodes, 1)"
ForBarcode ==
    /\ pc = "for"
    /\ idx <= Len(barcodes)
    /\ LET barcode == barcodes[idx]
           decoded == Utf8Decode(barcode.data)
       IN  IF ~decoded.ok
             THEN /\ pc' = "crashed"
                  /\ UNCHANGED <<results, labels, idx>>
             ELSE /\ results' = Append(results,
                                   [type     |-> barcode.type,
                                    data     |-> decoded.text,
                                    location |-> barcode.rect])
                  /\ labels' = Append(labels,
                                   [type |-> barcode.type,
                                    text |-> SubSeq(decoded.text, 1,
                                               Min(LabelMax, Len(decoded.text)))])
                  /\ idx' = idx + 1
                  /\ UNCHANGED pc
    /\ UNCHANGED <<fs, calls, ops, batchVars, image_path, image, gray, barcodes,
                   output_path, ret, histVars, invocations, ret_log,
                   returned_for, sys_argv>>

\* variant: the suffix is left out
OutputPathNoSuffix(p) == RSplit1(p, ".")[1] \o <<".">> \o RSplit1(p, ".")[2]

\* image_path.rsplit('.', 1)[0] + '_decoded.' + image_path.rsplit('.', 1)[1]
OutputPath(p) == RSplit1(p, ".")[1] \o Decoded \o <<".">> \o RSplit1(p, ".")[2]

\* the derivation of output_path after the loop; IndexError without a dot
DerivePath ==
    /\ pc = "for"
    /\ idx > Len(barcodes)
    /\ IF Len(RSplit1(image_path, ".")) < 2
         THEN pc' = "crashed" /\ UNCHANGED output_path
         ELSE pc' = "imwrite" /\ output_path' = OutputPath(image_path)
    /\ UNCHANGED <<fs, calls, ops, batchVars, image_path, image, gray, barcodes,
                   results, labels, idx, ret, histVars, invocations, ret_log,
                   returned_for, sys_argv>>

\* cv2.imwrite(output_path, image)
Imwrite ==
    /\ pc = "imwrite"
    /\ fs' = fs \cup {Norm(output_path)}
    /\ inv_writes' = Append(inv_writes, output_path)
    /\ ops' = ops \cup {"imwrite"}
    /\ pc' = "return"
    /\ UNCHANGED <<calls, batchVars, localVars, ret, attempts, fs_at_call,
                   load_failed, invocations, ret_log, returned_for, sys_argv>>

\* the outcome a returning invocation had, for returned_for
Outcome ==
    IF load_failed THEN "load_failure"
    ELSE IF \A i \in 1..Len(attempts) : attempts[i].found = <<>> THEN "no_symbols"
    ELSE "symbols"

\* "return []" and "return results": the locals end with the invocation
DecodeReturn ==
    /\ pc = "return"
    /\ ret' = ListValue(results)
    /\ ret_log' = DictPut(ret_log, IF image_file = <<>> THEN image_path ELSE image_file,
                          [outcome |-> Outcome, val |-> results])
    /\ returned_for' = IF Outcome \in DOMAIN returned_for
                         THEN [returned_for EXCEPT ![Outcome] = @ \cup {ret'}]
                         ELSE returned_for
    /\ pc' = "returned"
    /\ image_path' = <<>>
    /\ image' = "None"
    /\ gray' = "unset"
    /\ barcodes' = <<>>
    /\ results' = <<>>
    /\ labels' = <<>>
    /\ idx' = 0
    /\ output_path' = <<>>
    /\ attempts' = <<>>
    /\ inv_writes' = <<>>
    /\ fs_at_call' = fs
    /\ load_failed' = FALSE
    /\ UNCHANGED <<fs, calls, ops, batchVars, invocations, sys_argv>>

\* decode_single_image returns what the pipeline returned
SingleReturn ==
    /\ pc = "returned"
    /\ "decode_single_image" \in calls
    /\ pc' = "exit"
    /\ UNCHANGED <<fs, calls, ops, batchVars, localVars, ret, histVars,
                   invocations, ret_log, returned_for, sys_argv>>

Next ==
    \/ Main
    \/ SingleImage
    \/ SingleReturn
    \/ BatchEnumerate
    \/ BatchNext
    \/ BatchStore
    \/ BatchSummary
    \/ Imread
    \/ DecodeImage
    \/ DecodeGray
    \/ PilOpen
    \/ DecodePil
    \/ Report
    \/ ForBarcode
    \/ DerivePath
    \/ Imwrite
    \/ DecodeReturn

Spec == Init /\ [][Next]_vars

\* ============================================================ claims
IsBatch  == "decode_all_images_in_directory" \in calls
IsSingle == "decode_single_image" \in calls

Range(q) == {q[i] : i \in 1..Len(q)}

\* the name ends with one of the supported extensions, in any letter case
HasImageExtension(f) == \E e \in image_extensions : EndsWith(Lower(f), e)

\* the name carries the annotation suffix right before its extension
BearsAnnotationSuffix(f) ==
    /\ Len(RSplit1(f, ".")) = 2
    /\ EndsWith(RSplit1(f, ".")[1], Decoded)

\* a qualifying image file, by its name
Qualifies(f) == HasImageExtension(f) /\ ~BearsAnnotationSuffix(f)

\* the path with the suffix inserted before the extension of the file name
\* (the extension as os.path.splitext takes it), in the same directory
ExpectedAnnotatedPath(p) ==
    LET base == Basename(p)
        dot  == LastIndexOf(base, ".")
        dir  == SubSeq(p, 1, Len(p) - Len(base))
    IN  IF dot <= 1 THEN p \o Decoded
        ELSE dir \o SubSeq(base, 1, dot - 1) \o Decoded \o SubSeq(base, dot, Len(base))

\* C1: a second batch run over the directory as a batch run left it would
\* enumerate exactly the files that run enumerated (os.listdir and the filter
\* applied to the final file system): no annotated output passes the filter.
C1_RerunProcessesSameFiles ==
    (IsBatch /\ pc = "exit") =>
        {f \in ListDir(directory) : Selected(f)} = image_files

\* C2: a batch run that ends normally has run the pipeline exactly once on
\* each qualifying entry of the directory (image extension, no annotation
\* suffix) and on nothing else, and reports their number as processed.
C2_ProcessesExactlyQualifying ==
    (IsBatch /\ pc = "exit") =>
        LET Q == {f \in listing : Qualifies(f)}
        IN  /\ DOMAIN invocations = Q
            /\ \A f \in Q : invocations[f] = 1
            /\ Q # {} => summary.printed /\ summary.processed = Cardinality(Q)

AttemptOrder == <<"image", "gray", "pil">>

\* C3: the decode attempts are made in the order bitmap, grayscale, PIL; an
\* attempt is made only if every earlier one found nothing; what is reported
\* is the list of the last attempt made, which is the first non-empty one,
\* or the empty list of the third attempt.
C3_FallbackOrder ==
    /\ Len(attempts) <= Len(AttemptOrder)
    /\ \A i \in 1..Len(attempts) : attempts[i].rep = AttemptOrder[i]
    /\ \A i \in 1..(Len(attempts) - 1) : attempts[i].found = <<>>
    /\ (pc = "return" /\ ~load_failed) =>
         LET last == attempts[Len(attempts)].found
         IN  /\ Len(attempts) >= 1
             /\ last = <<>> => Len(attempts) = Len(AttemptOrder)
             /\ Len(results) = Len(last)
             /\ \A k \in 1..Len(last) :
                  /\ results[k].type = last[k].type
                  /\ results[k].location = last[k].rect

C3_Witness ==
    /\ pc = "return"
    /\ Len(attempts) = 3
    /\ attempts[3].found # <<>>
    /\ Len(results) = Len(attempts[3].found)

\* C4: in batch mode no failure while processing a file ends the program:
\* nothing propagates out of decode_barcode_pyzbar.
C4_NoFailurePropagates == IsBatch => pc # "crashed"

\* C5: when the pipeline returns, it returns the empty list and has written
\* nothing if every decode attempt found nothing; it has written an annotated
\* file exactly when the list it returns is non-empty; and the list has one
\* entry per decoded symbol, in the library's order.
C5_AnnotatedIffSymbols ==
    pc = "return" =>
        /\ (\A i \in 1..Len(attempts) : attempts[i].found = <<>>) =>
               results = <<>> /\ inv_writes = <<>>
        /\ (inv_writes # <<>>) <=> (results # <<>>)
        /\ Len(results) = Len(barcodes)
        /\ \A k \in 1..Len(barcodes) :
             /\ results[k].type = barcodes[k].type
             /\ results[k].data = Utf8Decode(barcodes[k].data).text
             /\ results[k].location = barcodes[k].rect

C5_Witness ==
    /\ pc = "return"
    /\ Len(results) = 2
    /\ results[1] # results[2]
    /\ inv_writes # <<>>

\* C6: no value is returned both for a load failure and for a readable image
\* without symbols.
C6_LoadFailureDistinguishable ==
    returned_for["load_failure"] \cap returned_for["no_symbols"] = {}

\* C7: every path handed to cv2.imwrite is the input path with "_decoded"
\* inserted right before the extension of the file name, in the same
\* directory.
C7_SuffixBeforeExtension ==
    \A w \in Range(inv_writes) : w = ExpectedAnnotatedPath(image_path)

\* C8: after a batch run over a non-empty list, the dict maps every enumerated
\* name to the list returned for it, and the summary counts are the number of
\* enumerated files, the number of non-empty lists and the sum of the lengths;
\* a file that failed to load is counted as processed with an empty list.
C8_SummaryCounts ==
    (IsBatch /\ pc = "exit" /\ image_files # {}) =>
        /\ summary.printed
        /\ DOMAIN all_results = image_files
        /\ DOMAIN ret_log = image_files
        /\ \A f \in image_files : all_results[f] = ret_log[f].val
        /\ summary.processed = Cardinality(image_files)
        /\ summary.processed = Cardinality(DOMAIN all_results)
        /\ summary.successful =
             Cardinality({f \in image_files : ret_log[f].val # <<>>})
        /\ summary.total =
             SumLen([f \in image_files |-> ret_log[f].val], image_files)
        /\ summary.successful <= summary.processed
        /\ summary.successful <= summary.total
        /\ \A f \in image_files :
             ret_log[f].outcome = "load_failure" => all_results[f] = <<>>

C8_Witness ==
    /\ IsBatch
    /\ pc = "exit"
    /\ summary.printed
    /\ \E f, g \in image_files :
         /\ ret_log[f].outcome = "load_failure"
         /\ Len(ret_log[g].val) = 2
    /\ summary.total = 2

\* C9: without an argument the program runs batch mode over "." and never the
\* single-file entry; with one argument it runs the single-file entry on that
\* path and never lists a directory; and in single-file mode a path that does
\* not exist ends the program without a load, a decode or a write.
C9_Dispatch ==
    /\ Len(sys_argv) = 1 =>
         /\ ~IsSingle
         /\ pc # "main" => IsBatch /\ directory = DefaultDirectory
         /\ DOMAIN invocations \subseteq image_files
    /\ Len(sys_argv) = 2 =>
         /\ ~IsBatch
         /\ "listdir" \notin ops
         /\ pc # "main" => IsSingle
         /\ DOMAIN invocations \subseteq {sys_argv[2]}
         /\ pc \in {"imread", "decode_image", "decode_gray", "pil_open",
                    "decode_pil", "report", "for", "imwrite", "return"} =>
                image_path = sys_argv[2]
    /\ (IsSingle /\ pc # "single" /\ ~Exists(sys_argv[2])) =>
         /\ pc = "exit"
         /\ ret = NoneValue
         /\ ops = {"exists"}
         /\ invocations = EmptyDict

C9_Witness ==
    /\ IsSingle
    /\ Len(sys_argv) = 2
    /\ pc = "exit"
    /\ ~Exists(sys_argv[2])

\* C10: an invocation of the pipeline hands at most one path to cv2.imwrite,
\* never the path it reads, and only after every symbol has been recorded;
\* the file system differs from the one at the call by that file alone.
C10_NeverOverwritesInput ==
    /\ Len(inv_writes) <= 1
    /\ \A w \in Range(inv_writes) :
         /\ w # image_path
         /\ Norm(w) # Norm(image_path)
         /\ Len(results) = Len(barcodes)
    /\ fs = fs_at_call \cup {Norm(w) : w \in Range(inv_writes)}

C10_Witness ==
    /\ pc = "return"
    /\ Len(inv_writes) = 1
    /\ Len(results) = 2
    /\ Norm(inv_writes[1]) \in fs
    /\ Norm(inv_writes[1]) \notin fs_at_call
====
